---- MODULE Spec2Model ----
(***************************************************************************)
(* Transaction state machine of the payment orchestrator: createPayment,   *)
(* getPaymentForm and processCallback running as concurrent request tasks  *)
(* over the persisted transaction records, with the Garanti and Payten     *)
(* adapters behind them.  Every awaited store access or acquirer exchange  *)
(* is one step of a task; the store applies each write atomically.         *)
(***************************************************************************)
EXTENDS Integers, Sequences, FiniteSets, TLC

\* ---------------------------------------------------------------- bounds
MaxTx == 1        \* payment records ever created
MaxChildren == 1  \* post-authorization records ever created
MaxTasks == 2     \* request tasks in flight at once
MaxLogs == 6      \* log entries ever written, over all records
MaxPos == 2       \* terminals a company ever creates

Tasks == 1..MaxTasks
TxIds == 1..(MaxTx + MaxChildren)

\* ------------------------------------------------------- field encryption
\* A stored string: text is the clear content, enc says it is ciphertext,
\* colon says the stored form contains the ':' sentinel.
Plain(p) == [enc |-> FALSE, colon |-> FALSE, text |-> p]
\* a clear text that itself contains ':'
PlainWithColon(p) == [enc |-> FALSE, colon |-> TRUE, text |-> p]
NullField == [enc |-> FALSE, colon |-> FALSE, text |-> "null"]

encrypt(f) == IF f.colon THEN f ELSE [enc |-> TRUE, colon |-> TRUE, text |-> f.text]
\* what decrypt answers for a string that has the sentinel but is no ciphertext
CryptoError == [enc |-> FALSE, colon |-> FALSE, text |-> "crypto_error"]
decrypt(f) == IF ~f.colon THEN f
              ELSE IF f.enc THEN [enc |-> FALSE, colon |-> FALSE, text |-> f.text]
              ELSE CryptoError
maskCardNumber(f) == Plain("masked")

\* ------------------------------------------------- YKB callback decryption
\* MerchantPacket values of a callback, by what they hold: nothing, 8 hex
\* characters, 80 hex characters whose plaintexts have too few fields, 216 hex
\* characters that decrypt in the minus8 variant to 15 fields with
\* tds_md_status 1, and 80 hex characters that decrypt to tds_md_status 0.
MerchantPackets == {"", "0A1B2C3D", "few", "ok1", "ok0", "pad"}
hexLength(packet) == CASE packet = "" -> 0
                       [] packet = "0A1B2C3D" -> 8
                       [] packet = "ok1" -> 216
                       [] OTHER -> 80
Modes == <<"full", "minus8", "minus16">>

\* what 3DES-CBC yields for the data a variant extracts: the number of
\* ';'-separated parts and the twelfth of them. "pad": the plaintext ends in
\* "...;10" with the 0 alone in the last block, so that the data cut by one
\* block decodes as well, to "...;1"
plaintext(packet, mode) ==
  CASE packet = "few" /\ mode = "full" -> [parts |-> 5, tds_md_status |-> ""]
    [] packet = "ok1" /\ mode = "minus8" -> [parts |-> 15, tds_md_status |-> "1"]
    [] packet = "ok0" /\ mode = "full" -> [parts |-> 15, tds_md_status |-> "0"]
    [] packet = "pad" /\ mode = "full" -> [parts |-> 12, tds_md_status |-> "10"]
    [] packet = "pad" /\ mode = "minus16" -> [parts |-> 12, tds_md_status |-> "1"]
    [] OTHER -> [parts |-> 1, tds_md_status |-> ""]

\* String.prototype.substring(start, end): both clamped to the string, swapped
\* when start > end; the length of the result
clamp(x, len) == IF x < 0 THEN 0 ELSE IF x > len THEN len ELSE x
substringLength(len, start, end) ==
  IF clamp(start, len) <= clamp(end, len) THEN clamp(end, len) - clamp(start, len)
  ELSE clamp(start, len) - clamp(end, len)

NoPacket == [ok |-> FALSE, tds_md_status |-> ""]
\* Buffer.from(dataHex, 'hex').length for the data a variant extracts
dataLength(packet, mode) ==
  LET len == hexLength(packet)
  IN CASE mode = "minus8" -> substringLength(len, 16, len - 8) \div 2
       [] mode = "minus16" -> substringLength(len, 16, len - 16) \div 2
       [] OTHER -> substringLength(len, 16, len) \div 2
tryDecrypt(packet, mode) ==
  LET len == hexLength(packet)
      ivBytes == substringLength(len, 0, 16) \div 2
      dataBytes == dataLength(packet, mode)
  IN IF dataBytes % 8 # 0 THEN NoPacket
     ELSE IF ivBytes # 8 THEN NoPacket
     ELSE IF plaintext(packet, mode).parts < 2 THEN NoPacket
     ELSE IF plaintext(packet, mode).parts < 12 THEN NoPacket
     ELSE [ok |-> TRUE, tds_md_status |-> plaintext(packet, mode).tds_md_status]

\* variant: the three extractions tried in the opposite order
decryptMerchantPacket_lastFirst(packet) ==
  IF tryDecrypt(packet, Modes[3]).ok THEN tryDecrypt(packet, Modes[3])
  ELSE IF tryDecrypt(packet, Modes[2]).ok THEN tryDecrypt(packet, Modes[2])
  ELSE tryDecrypt(packet, Modes[1])
decryptMerchantPacket(packet) ==
  IF tryDecrypt(packet, Modes[1]).ok THEN tryDecrypt(packet, Modes[1])
  ELSE IF tryDecrypt(packet, Modes[2]).ok THEN tryDecrypt(packet, Modes[2])
  ELSE tryDecrypt(packet, Modes[3])

YKB_validStatuses == {"1", "2", "4", "9"}

\* how YKB processCallback ends for a packet: an error code, or "" for provision
YKB_outcome(packet) ==
  IF packet = "" THEN "NO_MERCHANT_PACKET"
  ELSE IF ~decryptMerchantPacket(packet).ok THEN "DECRYPT_ERROR"
  ELSE IF decryptMerchantPacket(packet).tds_md_status \notin YKB_validStatuses
  THEN decryptMerchantPacket(packet).tds_md_status
  ELSE ""
YKB_Pending(packet) == IF YKB_outcome(packet) = "" THEN 3 ELSE 1

\* ------------------------------------------------------------- terminals
PROVIDERS == [garanti |-> TRUE, payten |-> TRUE, akbank |-> FALSE, ykb |-> FALSE,
              vakifbank |-> FALSE, qnb |-> FALSE, denizbank |-> FALSE,
              paytr |-> FALSE, iyzico |-> FALSE, sigmapay |-> FALSE]

isProviderSupported_in(provider) == provider \in DOMAIN PROVIDERS
isProviderSupported(provider) == provider \in DOMAIN PROVIDERS /\ PROVIDERS[provider]

\* the adapter built for a terminal's provider tag, or the error thrown instead
getProvider(provider) ==
  IF provider \in DOMAIN PROVIDERS /\ PROVIDERS[provider]
  THEN [adapter |-> provider, error |-> ""]
  ELSE [adapter |-> "", error |-> "Provider not implemented"]

\* The terminal store as the payment flow reads it: 0 is an id no terminal has.
VirtualPos == [i \in 1..5 |->
                 CASE i = 1 -> [provider |-> "garanti", status |-> TRUE,
                                currencies |-> {"try"}]
                   [] i = 2 -> [provider |-> "payten", status |-> TRUE,
                                currencies |-> {"try", "eur"}]
                   [] i = 3 -> [provider |-> "ykb", status |-> TRUE,
                                currencies |-> {"try"}]
                   [] i = 4 -> [provider |-> "garanti", status |-> FALSE,
                                currencies |-> {"try"}]
                   [] i = 5 -> [provider |-> "vakifbank", status |-> TRUE,
                                currencies |-> {"try"}]]
PosIds == 0..4

\* ------------------------------------------------------------ BIN service
CardNumbers == {"4282209004348016", "1234"}
Currencies == {"try", "eur"}
\* what the upstream BIN API answers: a country, a body without one, or a failure
Upstream == {"tr", "nocountry", "error"}

\* parseInt(number.replace(/\s/g,'').slice(0,8), 10)
binOf(number) == IF number = "4282209004348016" THEN 42822090
                 ELSE IF number = "5400617004770018" THEN 54006170 ELSE 1234
binDigits(bin) == IF bin >= 10000000 THEN 8 ELSE IF bin >= 100000 THEN 6 ELSE 4
firstDigit(bin) == IF bin >= 10000000 THEN bin \div 10000000 ELSE bin \div 1000

NoInfo == [valid |-> FALSE, country |-> ""]
NotCached == [valid |-> FALSE, country |-> "miss"]
normalizeBinInfo(data) ==
  [valid |-> TRUE, country |-> IF data = "nocountry" THEN "tr" ELSE data]
detectCardBrand(bin) ==
  [valid |-> TRUE, country |-> IF firstDigit(bin) = 2 THEN "ru" ELSE "unknown"]
\* variant: the country code compared in the wrong case
isDomesticCard_upper(binInfo) == binInfo.valid /\ binInfo.country = "TR"
isDomesticCard(binInfo) == binInfo.valid /\ binInfo.country = "tr"

CachedBins == {42822090, 54006170}
\* getBinInfo: the value returned and the cache afterwards
getBinInfo(bin, cache, up) ==
  IF binDigits(bin) < 6 THEN [info |-> NoInfo, cache |-> cache]
  ELSE IF cache[bin] # NotCached THEN [info |-> cache[bin], cache |-> cache]
  ELSE IF up # "error"
       THEN [info |-> normalizeBinInfo(up),
             cache |-> [cache EXCEPT ![bin] = normalizeBinInfo(up)]]
       ELSE [info |-> detectCardBrand(bin), cache |-> cache]

\* ----------------------------------------------------- transaction record
Card == [holder |-> "JOHN DOE", expiry |-> "03/28", cvv |-> "358"]

\* the message stored with a failure: the acquirer's ErrMsg for a denial, the
\* error's message for a caught error, the 3-D default text for a 3-D status
errorMessage(code) == CASE code = "12" -> "Red-Kart hatali"
                        [] code = "NO_MERCHANT_PACKET" -> "Banka yaniti alinamadi"
                        [] code = "DECRYPT_ERROR" -> "3D dogrulama sifresi cozulemedi"
                        [] code = "NETWORK_ERROR" -> "timeout of 30000ms exceeded"
                        [] code = "ERROR" -> "save rejected"
                        [] code = "UNKNOWN" -> "3D dogrulama baslatilamadi"
                        [] code = "1001" -> "Uye isyeri bulunamadi"
                        [] OTHER -> "3D dogrulama basarisiz"
NoResult == [set |-> FALSE, success |-> FALSE, code |-> "", authCode |-> "", message |-> ""]
Failure(code) == [set |-> TRUE, success |-> FALSE, code |-> code, authCode |-> "",
                  message |-> errorMessage(code)]
Approval == [set |-> TRUE, success |-> TRUE, code |-> "", authCode |-> "AUTH", message |-> ""]

NoForm == [set |-> FALSE, pan |-> NullField, cv2 |-> NullField]

\* log entry types the schema accepts
LogTypes == {"init", "3d_form", "3d_callback", "provision", "error"}

\* request: the card and credential values the logged request carries
addLog(type, request) == [type |-> type, request |-> request]

\* pre('save') hook on a new document
preSave(card) ==
  [holder |-> IF card.holder.colon THEN card.holder ELSE encrypt(card.holder),
   number |-> IF card.number.colon THEN card.number ELSE encrypt(card.number),
   expiry |-> IF card.expiry.colon THEN card.expiry ELSE encrypt(card.expiry),
   cvv    |-> IF card.cvv.colon THEN card.cvv ELSE encrypt(card.cvv),
   masked |-> IF card.number.colon THEN card.masked ELSE maskCardNumber(card.number),
   bin    |-> card.bin]

NewTransaction(posId, number) ==
  [pos |-> posId, kind |-> "payment",
   card |-> preSave([holder |-> Plain(Card.holder), number |-> Plain(number),
                     expiry |-> Plain(Card.expiry), cvv |-> Plain(Card.cvv),
                     masked |-> NullField, bin |-> binOf(number)]),
   status |-> "pending", result |-> NoResult, formData |-> NoForm, logs |-> << >>]

getDecryptedCard(rec) ==
  [holder |-> decrypt(rec.card.holder), number |-> decrypt(rec.card.number),
   expiry |-> decrypt(rec.card.expiry), cvv |-> decrypt(rec.card.cvv)]

\* ------------------------------------------------ terminals and selection
BankCodes == {"garanti", "isbank", "akbank"}
FamilySets == {{}, {"Bonus"}}
DefaultMaxCount == 12
DefaultMinAmount == 100
\* the request bodies a terminal is created from
TerminalRequests ==
  {[priority |-> 0, currencies |-> {"try"},
    installment |-> [enabled |-> TRUE, maxCount |-> 3, minAmount |-> 100],
    credentials |-> [password |-> Plain("secret")]],
   [priority |-> 10, currencies |-> {"try", "eur"},
    installment |-> [enabled |-> FALSE, maxCount |-> 3, minAmount |-> 100],
    credentials |-> [password |-> PlainWithColon("pa:ss")]]}
PosRequests ==
  TerminalRequests \cup
  {[priority |-> 0, currencies |-> {"try"},
    installment |-> [enabled |-> TRUE, maxCount |-> 3, minAmount |-> 0],
    credentials |-> [password |-> Plain("secret")]],
   [priority |-> 10, currencies |-> {"try"},
    installment |-> [enabled |-> TRUE, maxCount |-> 2, minAmount |-> 100],
    credentials |-> [password |-> Plain("secret")]]}
\* the bodies of PUT /:id: a status, a currency list or a password
StatusBodies ==
  {[status |-> st, currencies |-> {}, credentials |-> [password |-> Plain("")]] :
     st \in {"true", "false"}}
CurrencyBodies ==
  {[status |-> "undefined", currencies |-> {"eur"}, credentials |-> [password |-> Plain("")]]}
CredentialBodies ==
  {[status |-> "undefined", currencies |-> {},
    credentials |-> [password |-> PlainWithColon("pa:ss")]]}
Amounts == {50, 150}
QueryCurrencies == {"try", "eur", "TRY"}
\* what the BIN lookup answers for a card: the issuing bank's code, the card
\* family and the card type
BinData == [bankCode : {"garanti", ""}, family : {"Bonus", ""}, type : {"credit", "debit", "prepaid"}]

toLowerCase(str) == CASE str = "TRY" -> "try" [] str = "Bonus" -> "bonus" [] OTHER -> str

normalizeCardType(type) ==
  IF type = "debit" THEN "debit" ELSE IF type = "prepaid" THEN "prepaid" ELSE "credit"

\* the selection-relevant part of normalizeBinInfo: type and family are kept,
\* a bank code in the lookup's answer is not
binProfile(data) == [family |-> data.family, type |-> normalizeCardType(data.type)]

cardBankCode(binInfo) ==
  IF "bankCode" \in DOMAIN binInfo THEN toLowerCase(binInfo.bankCode) ELSE ""
cardFamily(binInfo) ==
  IF "family" \in DOMAIN binInfo THEN toLowerCase(binInfo.family) ELSE ""

\* VirtualPos.find({currencies, status: true})
allPos(store, currencyLower) ==
  {i \in 1..Len(store) : store[i].status /\ currencyLower \in store[i].currencies}
\* the elements of S that a sort by descending priority may put first; the
\* order among equal priorities is the store's choice
first(store, S) == {i \in S : \A j \in S : store[j].priority <= store[i].priority}

onusPos(store, all, binInfo) == {i \in all : store[i].bankCode = cardBankCode(binInfo)}
familyPos(store, all, binInfo) ==
  {i \in all : /\ "supportedCardFamilies" \in DOMAIN store[i]
               /\ \E f \in store[i].supportedCardFamilies : toLowerCase(f) = cardFamily(binInfo)}
defaultPos(store, all, currencyLower) ==
  {i \in all : currencyLower \in store[i].defaultForCurrencies}

\* the terminals matching the first rule of findSuitablePos that matches any
ruleMatches(store, currency, binInfo) ==
  LET all == allPos(store, toLowerCase(currency))
  IN IF all = {} THEN {}
     ELSE IF cardBankCode(binInfo) # "" /\ onusPos(store, all, binInfo) # {}
          THEN onusPos(store, all, binInfo)
     ELSE IF cardFamily(binInfo) # "" /\ familyPos(store, all, binInfo) # {}
          THEN familyPos(store, all, binInfo)
     ELSE IF defaultPos(store, all, toLowerCase(currency)) # {}
          THEN defaultPos(store, all, toLowerCase(currency))
     ELSE all

\* the terminals findSuitablePos may return (find() on the sorted list);
\* empty for null
findSuitablePos(store, currency, binInfo) ==
  first(store, ruleMatches(store, currency, binInfo))

generateInstallmentOptions(pos, amount, currency, binInfo) ==
  {[count |-> 1, amount |-> amount]} \cup
  IF currency = "try" /\ pos.installment.enabled /\ binInfo.type = "credit"
  THEN LET maxCount == IF pos.installment.maxCount = 0 THEN DefaultMaxCount
                       ELSE pos.installment.maxCount
           minAmount == IF pos.installment.minAmount = 0 THEN DefaultMinAmount
                        ELSE pos.installment.minAmount
       IN IF amount >= minAmount
          THEN {[count |-> i, amount |-> amount] : i \in 2..maxCount}
          ELSE {}
  ELSE {}

NoAnswer == [op |-> "", success |-> FALSE, pos |-> 0, installments |-> {}]

\* -------------------------------------------------------------- the state
VARIABLES db,        \* persisted transactions, id = position
          tasks,     \* request tasks: position in the handler and the loaded document
          binCache,  \* the BIN service's in-memory cache
          sent,      \* provision requests the acquirer received, per transaction
          issued,    \* transaction ids handed out in a createPayment reply
          terminals, \* the company's stored terminals, in insertion order
          answer,    \* the reply of a BIN query that is being delivered
          calls      \* set-default requests: position in the handler, loaded terminal

vars == <<db, tasks, binCache, sent, issued, terminals, answer, calls>>

\* isDefault: the loaded terminal's defaultForCurrencies includes the currency
NoCall == [pc |-> "idle", pos |-> 0, currency |-> "", isDefault |-> FALSE]

NoDoc == [status |-> "", result |-> NoResult, cvv |-> NullField, formData |-> NoForm]
\* pushed: log entries added to the loaded document and not saved yet
Idle == [pc |-> "idle", op |-> "", tx |-> 0, doc |-> NoDoc,
         md |-> "", out |-> "", ret |-> "", message |-> "", pushed |-> << >>]

Load(rec) == [status |-> rec.status, result |-> rec.result, cvv |-> rec.card.cvv,
              formData |-> rec.formData]

Init ==
  /\ db = << >>
  /\ tasks = [t \in Tasks |-> Idle]
  /\ binCache = [b \in CachedBins |-> NotCached]
  /\ sent = [i \in TxIds |-> 0]
  /\ issued = {}
  /\ terminals = << >>
  /\ answer = NoAnswer
  /\ calls = [c \in Tasks |-> NoCall]

\* document.save(): $set of the paths whose value differs from the loaded one,
\* $push of the log entries added since the load
\* variant: the logs array written as a whole ($set) instead of appended to
save_setLogs(rec, loaded, cur, pushed) ==
  [rec EXCEPT !.status = IF cur.status # loaded.status THEN cur.status ELSE @,
              !.result = IF cur.result # loaded.result THEN cur.result ELSE @,
              !.card.cvv = IF cur.cvv # loaded.cvv THEN cur.cvv ELSE @,
              !.logs = pushed]
save(rec, loaded, cur, pushed) ==
  [rec EXCEPT !.status = IF cur.status # loaded.status THEN cur.status ELSE @,
              !.result = IF cur.result # loaded.result THEN cur.result ELSE @,
              !.card.cvv = IF cur.cvv # loaded.cvv THEN cur.cvv ELSE @,
              !.logs = @ \o pushed]

\* a request starts on the lowest free task, once every reply is delivered
Replied == \A u \in Tasks : tasks[u].pc # "done"
FreeTask(t) == /\ tasks[t].pc = "idle"
               /\ \A u \in Tasks : u < t => tasks[u].pc # "idle"
               /\ Replied

\* log entries a task may still write
Pending(pc) == CASE pc = "callback_log" -> 2
                 [] pc = "ykb_provision_log" -> 2
                 [] pc = "vakif_initialize" -> 2
                 [] pc = "vakif_post" -> 1
                 [] pc \in {"initialize", "initialize_log", "getFormHtml", "provision_wait"} -> 1
                 [] OTHER -> 0
RECURSIVE Written(_), Owed(_)
Written(i) == IF i = 0 THEN 0 ELSE Len(db[i].logs) + Written(i - 1)
Owed(t) == IF t = 0 THEN 0
           ELSE (IF tasks[t].pc = "ykb_log" THEN YKB_Pending(tasks[t].md)
                 ELSE Pending(tasks[t].pc)) + Owed(t - 1)
HasRoom(k) == Written(Len(db)) + Owed(MaxTasks) + k <= MaxLogs

\* a finished request: what it was and what it answered
Done(t, ret) == [Idle EXCEPT !.pc = "done", !.op = tasks[t].op, !.tx = tasks[t].tx,
                             !.ret = ret]
Start(op, tx, ret) == [Idle EXCEPT !.pc = "done", !.op = op, !.tx = tx, !.ret = ret]

providerOf(tx) == VirtualPos[db[tx].pos].provider

\* ---------------------------------------------------------- createPayment
\* Terminal lookup, provider check, BIN lookup, currency gate and the insert
\* of the pending record.
createPayment(t, posId, currency, number, up) ==
  /\ FreeTask(t)
  /\ UNCHANGED <<sent, issued, terminals, answer, calls>>
  /\ IF ~(posId \in DOMAIN VirtualPos /\ VirtualPos[posId].status)
     THEN /\ tasks' = [tasks EXCEPT ![t] =
                        Start("createPayment", 0, "pos_not_active")]
          /\ UNCHANGED <<db, binCache>>
     ELSE IF ~isProviderSupported(VirtualPos[posId].provider)
     THEN /\ tasks' = [tasks EXCEPT ![t] =
                        Start("createPayment", 0, "provider_unsupported")]
          /\ UNCHANGED <<db, binCache>>
     ELSE LET r == getBinInfo(binOf(number), binCache, up)
              req == [Idle EXCEPT !.op = "createPayment"]
          IN /\ binCache' = r.cache
             /\ IF currency # "try" /\ r.info.valid /\ isDomesticCard(r.info)
                THEN /\ tasks' = [tasks EXCEPT ![t] =
                                   [req EXCEPT !.pc = "done", !.ret = "domestic_card_non_try"]]
                     /\ UNCHANGED db
                ELSE LET rec == NewTransaction(posId, number)
                     IN /\ Cardinality({i \in 1..Len(db) : db[i].kind = "payment"}) < MaxTx
                        /\ HasRoom(1)
                        /\ db' = Append(db, rec)
                        /\ tasks' = [tasks EXCEPT ![t] =
                                      [req EXCEPT !.pc = "initialize", !.tx = Len(db) + 1,
                                                  !.doc = Load(rec)]]

\* the catch block of createPayment: status and result are saved, the error rethrown
catchInitialize(t, pushed) ==
  LET d == tasks[t].doc
      cur == [d EXCEPT !.status = "failed", !.result = Failure("ERROR")]
  IN /\ db' = [db EXCEPT ![tasks[t].tx] = save(@, d, cur, pushed)]
     /\ tasks' = [tasks EXCEPT ![t] = Done(t, "raised")]

\* Payten initialize: formData with the clear card is stored by saveSecure
initialize_saveSecure(t) ==
  /\ Replied
  /\ tasks[t].pc = "initialize"
  /\ providerOf(tasks[t].tx) = "payten"
  /\ LET tx == tasks[t].tx
         card == getDecryptedCard(db[tx])
         form == [set |-> TRUE, pan |-> card.number, cv2 |-> card.cvv]
     IN /\ db' = [db EXCEPT ![tx].formData = form]
        /\ tasks' = [tasks EXCEPT ![t].pc = "initialize_log", ![t].doc.formData = form]
  /\ UNCHANGED <<binCache, sent, issued, terminals, answer, calls>>

\* log('init', {orderId}, ...) of either adapter; Garanti sets formData on the
\* in-memory document only, its save() writes the log entry and nothing else.
\* ok = FALSE: the awaited save rejects and createPayment's catch runs.
initialize_log(t, ok) ==
  /\ Replied
  /\ \/ tasks[t].pc = "initialize" /\ providerOf(tasks[t].tx) = "garanti"
     \/ tasks[t].pc = "initialize_log"
  /\ LET tx == tasks[t].tx
         entry == addLog("init", {})
     IN IF ok
        THEN /\ db' = [db EXCEPT ![tx] = save(@, tasks[t].doc, tasks[t].doc, <<entry>>)]
             /\ tasks' = [tasks EXCEPT ![t].pc = "updateOne"]
        ELSE catchInitialize(t, <<entry>>)
  /\ UNCHANGED <<binCache, sent, issued, terminals, answer, calls>>

\* Transaction.updateOne({_id}, {$set: {status: 'processing'}}) and the reply
createPayment_updateOne(t) ==
  /\ Replied
  /\ tasks[t].pc = "updateOne"
  /\ db' = [db EXCEPT ![tasks[t].tx].status = "processing"]
  /\ issued' = issued \cup {tasks[t].tx}
  /\ tasks' = [tasks EXCEPT ![t] = Done(t, "ok")]
  /\ UNCHANGED <<binCache, sent, terminals, answer, calls>>

\* --------------------------------------------------------- getPaymentForm
\* findById, the status check and the adapter's formData check
\* variant: the status check left out
getPaymentForm_noCheck(t, tx) ==
  /\ FreeTask(t)
  /\ tx \in (1..Len(db)) \cup {0}
  /\ HasRoom(1)
  /\ tasks' = [tasks EXCEPT ![t] =
       IF tx = 0 THEN Start("getPaymentForm", 0, "not_found")
       ELSE IF ~db[tx].formData.set THEN Start("getPaymentForm", tx, "no_form_data")
       ELSE [Start("getPaymentForm", tx, "") EXCEPT !.pc = "getFormHtml", !.doc = Load(db[tx])]]
  /\ UNCHANGED <<db, binCache, sent, issued, terminals, answer, calls>>
getPaymentForm(t, tx) ==
  /\ FreeTask(t)
  /\ tx \in (1..Len(db)) \cup {0}
  /\ HasRoom(1)
  /\ tasks' = [tasks EXCEPT ![t] =
       IF tx = 0 THEN Start("getPaymentForm", 0, "not_found")
       ELSE IF db[tx].status # "processing" THEN Start("getPaymentForm", tx, "state_error")
       ELSE IF ~db[tx].formData.set THEN Start("getPaymentForm", tx, "no_form_data")
       ELSE [Start("getPaymentForm", tx, "") EXCEPT !.pc = "getFormHtml", !.doc = Load(db[tx])]]
  /\ UNCHANGED <<db, binCache, sent, issued, terminals, answer, calls>>

\* log('3d_form', formData, ...) and the form HTML reply
getFormHtml(t) ==
  /\ Replied
  /\ tasks[t].pc = "getFormHtml"
  /\ LET form == tasks[t].doc.formData
         entry == addLog("3d_form", {form.pan.text, form.cv2.text})
     IN db' = [db EXCEPT ![tasks[t].tx] = save(@, tasks[t].doc, tasks[t].doc, <<entry>>)]
  /\ tasks' = [tasks EXCEPT ![t] = Done(t, "html")]
  /\ UNCHANGED <<binCache, sent, issued, terminals, answer, calls>>

\* -------------------------------------------------------- processCallback
MdStatus == {"1", "2", "0"}
validStatuses == {"1", "2", "3", "4"}
Responses == {"approved", "denied", "timeout"}

\* findById and the adapter construction
processCallback(t, tx, md) ==
  /\ FreeTask(t)
  /\ tx \in issued \cup {0}
  /\ HasRoom(2)
  /\ tasks' = [tasks EXCEPT ![t] =
       IF tx = 0 THEN [Start("processCallback", 0, "not_found")
                         EXCEPT !.message = "Islem bulunamadi"]
       ELSE [Start("processCallback", tx, "") EXCEPT !.pc = "callback_log", !.md = md,
                                                      !.doc = Load(db[tx])]]
  /\ UNCHANGED <<db, binCache, sent, issued, terminals, answer, calls>>

\* log('3d_callback', postData, {}), then the 3-D status check; an accepted
\* status goes on to processProvision, which posts the provision request.
\* ok = FALSE: the awaited save rejects and the error leaves processCallback.
processCallback_log(t, ok) ==
  /\ Replied
  /\ tasks[t].pc = "callback_log"
  /\ LET tx == tasks[t].tx
         entry == addLog("3d_callback", {})
     IN IF ~ok
        THEN /\ tasks' = [tasks EXCEPT ![t] =
                               [Done(t, "raised") EXCEPT !.message = "save rejected"]]
             /\ UNCHANGED <<db, sent>>
        ELSE /\ db' = [db EXCEPT ![tx] = save(@, tasks[t].doc, tasks[t].doc, <<entry>>)]
             /\ IF tasks[t].md \notin validStatuses
                THEN /\ tasks' = [tasks EXCEPT ![t].pc = "callback_invalid"]
                     /\ UNCHANGED sent
                ELSE /\ tasks' = [tasks EXCEPT ![t].pc = "provision_wait", ![t].md = ""]
                     /\ sent' = [sent EXCEPT ![tx] = @ + 1]
  /\ UNCHANGED <<binCache, issued, terminals, answer, calls>>

\* status = 'failed', result = {success:false, code: mdStatus, ...}, save()
processCallback_invalid(t) ==
  /\ Replied
  /\ tasks[t].pc = "callback_invalid"
  /\ LET d == tasks[t].doc
         cur == [d EXCEPT !.status = "failed", !.result = Failure(tasks[t].md)]
     IN /\ db' = [db EXCEPT ![tasks[t].tx] = save(@, d, cur, << >>)]
        /\ tasks' = [tasks EXCEPT ![t] =
                          [Done(t, "failure") EXCEPT !.message = cur.result.message]]
  /\ UNCHANGED <<binCache, sent, issued, terminals, answer, calls>>

\* variant: the CVV left in place
clearCvv_keep(doc) == doc
clearCvv(doc) == [doc EXCEPT !.cvv = NullField]

provisionRequest(provider) == IF provider = "payten" THEN {"PASSWORD"} ELSE {}

\* the acquirer's answer arrives: log('provision', request, result) on an
\* answer; on a transport failure status, result and the error log are saved
processProvision_response(t, resp) ==
  /\ Replied
  /\ tasks[t].pc = "provision_wait"
  /\ LET tx == tasks[t].tx
         d == tasks[t].doc
         cur == [d EXCEPT !.status = "failed", !.result = Failure("NETWORK_ERROR")]
     IN IF resp = "timeout"
        THEN /\ db' = [db EXCEPT ![tx] = save(@, d, cur, <<addLog("error", {})>>)]
             /\ tasks' = [tasks EXCEPT ![t] =
                    [Done(t, "failure") EXCEPT !.out = resp, !.message = "Baglanti hatasi"]]
        ELSE /\ db' = [db EXCEPT ![tx] =
                         save(@, d, d, <<addLog("provision", provisionRequest(providerOf(tx)))>>)]
             /\ tasks' = [tasks EXCEPT ![t].pc = "provision_final", ![t].out = resp]
  /\ UNCHANGED <<binCache, sent, issued, terminals, answer, calls>>

\* approved: status = 'success', result, clearCvv() saves; denied: 'failed', save()
processProvision_final(t) ==
  /\ Replied
  /\ tasks[t].pc = "provision_final"
  /\ LET d == tasks[t].doc
         cur == IF tasks[t].out = "approved"
                THEN clearCvv([d EXCEPT !.status = "success", !.result = Approval])
                ELSE [d EXCEPT !.status = "failed", !.result = Failure("12")]
     IN /\ db' = [db EXCEPT ![tasks[t].tx] = save(@, d, cur, << >>)]
        /\ tasks' = [tasks EXCEPT ![t] =
                      IF tasks[t].out = "approved"
                      THEN [Done(t, "success") EXCEPT !.message = "Odeme basarili"]
                      ELSE [Done(t, "failure") EXCEPT !.message = cur.result.message]]
  /\ UNCHANGED <<binCache, sent, issued, terminals, answer, calls>>

\* ----------------------------------------------------------------- postAuth
\* validation run by save(): every log entry's type is one the schema lists
validate(entries) == \A k \in 1..Len(entries) : entries[k].type \in LogTypes

\* the capture record of a completed authorization, as stored for the adapter
NewChild(parent, hasCvv) ==
  [db[parent] EXCEPT !.kind = "post_auth", !.status = "pending", !.result = NoResult,
                     !.formData = NoForm, !.logs = << >>,
                     !.card.cvv = IF hasCvv THEN encrypt(Plain(Card.cvv)) ELSE NullField]

\* Payten postAuth on the capture record: log('post_auth', ...) and the save
\* behind it; a rejected save is caught, the catch logs 'error' and saves
\* again, which rejects the same entry and leaves postAuth as an error.
postAuth(t, parent, hasCvv, resp) ==
  /\ FreeTask(t)
  /\ parent \in issued
  /\ db[parent].status = "success"
  /\ providerOf(parent) = "payten"
  /\ Cardinality({i \in 1..Len(db) : db[i].kind # "payment"}) < MaxChildren
  /\ LET child == NewChild(parent, hasCvv)
         d == Load(child)
         sending == <<addLog("post_auth", {"PASSWORD"})>>
         both == sending \o <<addLog("post_auth", {"PASSWORD"})>>
         cur == CASE resp = "approved" -> [d EXCEPT !.status = "success", !.result = Approval]
                  [] resp = "denied" -> [d EXCEPT !.status = "failed", !.result = Failure("12")]
                  [] OTHER -> [d EXCEPT !.status = "failed", !.result = Failure("NETWORK_ERROR")]
     IN IF ~validate(sending)
        THEN /\ db' = Append(db, child)
             /\ tasks' = [tasks EXCEPT ![t] = Start("postAuth", Len(db) + 1, "raised")]
        ELSE /\ db' = Append(db, save(child, d, cur,
                                      IF resp = "timeout"
                                      THEN sending \o <<addLog("error", {})>> ELSE both))
             /\ tasks' = [tasks EXCEPT ![t] = Start("postAuth", Len(db) + 1,
                                 IF resp = "approved" THEN "success" ELSE "failure")]
  /\ UNCHANGED <<binCache, sent, issued, terminals, answer, calls>>

\* ------------------------------------------------ cancel, refund, history
\* validation run by save(): the status is one the schema lists
Statuses == {"pending", "processing", "success", "failed"}

\* Payten cancel and refund on a child record of a successful payment: the
\* stored child and the answer. With the first log saved: an approval saves
\* the child as success and then the original (cancel: status 'cancelled',
\* which save() rejects, so the catch turns the child into failed
\* NETWORK_ERROR; refund: refundedAt, a path the schema does not have); a
\* denial or a transport failure saves the child as failed. With the first
\* log rejected the catch's own save rejects as well.
reversal(parent, kind, resp) ==
  LET child == [NewChild(parent, FALSE) EXCEPT !.kind = kind]
      d == Load(child)
      sending == <<addLog(kind, {"PASSWORD"})>>
      both == sending \o <<addLog(kind, {"PASSWORD"})>>
      original == IF kind = "cancel" THEN "cancelled" ELSE db[parent].status
      approved == resp = "approved" /\ original \in Statuses
      cur == CASE approved -> [d EXCEPT !.status = "success", !.result = Approval]
               [] resp = "denied" -> [d EXCEPT !.status = "failed", !.result = Failure("12")]
               [] OTHER -> [d EXCEPT !.status = "failed", !.result = Failure("NETWORK_ERROR")]
  IN IF ~validate(sending)
     THEN [child |-> child, ret |-> "raised"]
     ELSE [child |-> save(child, d, cur,
                          IF approved \/ resp = "denied"
                          THEN both ELSE both \o <<addLog("error", {})>>),
           ret |-> IF approved THEN "success" ELSE "failure"]

cancel(t, parent, resp) ==
  /\ FreeTask(t)
  /\ parent \in issued
  /\ db[parent].status = "success"
  /\ providerOf(parent) = "payten"
  /\ Cardinality({i \in 1..Len(db) : db[i].kind # "payment"}) < MaxChildren
  /\ HasRoom(Len(reversal(parent, "cancel", resp).child.logs))
  /\ db' = Append(db, reversal(parent, "cancel", resp).child)
  /\ tasks' = [tasks EXCEPT ![t] =
                 Start("cancel", Len(db) + 1, reversal(parent, "cancel", resp).ret)]
  /\ UNCHANGED <<binCache, sent, issued, terminals, answer, calls>>

refund(t, parent, resp) ==
  /\ FreeTask(t)
  /\ parent \in issued
  /\ db[parent].status = "success"
  /\ providerOf(parent) = "payten"
  /\ Cardinality({i \in 1..Len(db) : db[i].kind # "payment"}) < MaxChildren
  /\ HasRoom(Len(reversal(parent, "refund", resp).child.logs))
  /\ db' = Append(db, reversal(parent, "refund", resp).child)
  /\ tasks' = [tasks EXCEPT ![t] =
                 Start("refund", Len(db) + 1, reversal(parent, "refund", resp).ret)]
  /\ UNCHANGED <<binCache, sent, issued, terminals, answer, calls>>

\* Payten history: addLog('history', ...) pushes the entry onto the loaded
\* document and save() rejects it; the catch logs 'error' and its save
\* rejects the same entry, so the error leaves history with both entries
\* still on the document. Were the first save accepted, the query's two
\* entries would be stored.
history(t, tx) ==
  /\ FreeTask(t)
  /\ tx \in issued
  /\ providerOf(tx) = "payten"
  /\ LET querying == <<addLog("history", {"PASSWORD"})>>
     IN IF ~validate(querying)
        THEN /\ tasks' = [tasks EXCEPT ![t] =
                            [Start("history", tx, "raised") EXCEPT
                               !.pushed = querying \o <<addLog("error", {})>>]]
             /\ UNCHANGED db
        ELSE /\ HasRoom(2)
             /\ db' = [db EXCEPT ![tx] =
                         save(@, Load(db[tx]), Load(db[tx]),
                              querying \o <<addLog("history", {"PASSWORD"})>>)]
             /\ tasks' = [tasks EXCEPT ![t] = Start("history", tx, "success")]
  /\ UNCHANGED <<binCache, sent, issued, terminals, answer, calls>>

\* ------------------------------------------------------- the YKB adapter
\* saveSecure(): the secure bundle is marked modified and the document saved
saveSecure(rec, loaded, cur) ==
  [save(rec, loaded, cur, << >>) EXCEPT !.formData = cur.formData]

\* findById and the construction of the YKB adapter
YKB_processCallback(t, tx, packet) ==
  /\ FreeTask(t)
  /\ tx \in issued
  /\ providerOf(tx) = "ykb"
  /\ HasRoom(YKB_Pending(packet))
  /\ tasks' = [tasks EXCEPT ![t] =
       [Start("processCallback", tx, "") EXCEPT !.pc = "ykb_log", !.md = packet,
                                                 !.doc = Load(db[tx])]]
  /\ UNCHANGED <<db, binCache, sent, issued, terminals, answer, calls>>

\* log('3d_callback', postData, {}) and the checks that follow it
YKB_processCallback_log(t) ==
  /\ Replied
  /\ tasks[t].pc = "ykb_log"
  /\ db' = [db EXCEPT ![tasks[t].tx] =
              save(@, tasks[t].doc, tasks[t].doc, <<addLog("3d_callback", {})>>)]
  /\ tasks' = [tasks EXCEPT ![t].pc = IF YKB_outcome(tasks[t].md) = ""
                                      THEN "ykb_provision_log" ELSE "ykb_failed",
                            ![t].out = YKB_outcome(tasks[t].md)]
  /\ UNCHANGED <<binCache, sent, issued, terminals, answer, calls>>

\* status = 'failed', result = {success: false, code, message}, saveSecure()
YKB_processCallback_failed(t) ==
  /\ Replied
  /\ tasks[t].pc = "ykb_failed"
  /\ LET d == tasks[t].doc
         cur == [d EXCEPT !.status = "failed", !.result = Failure(tasks[t].out)]
     IN /\ db' = [db EXCEPT ![tasks[t].tx] = saveSecure(@, d, cur)]
        /\ tasks' = [tasks EXCEPT ![t] =
                          [Done(t, "failure") EXCEPT !.message = cur.result.message]]
  /\ UNCHANGED <<binCache, sent, issued, terminals, answer, calls>>

\* processProvision: log('provision', request, {status: 'sending'}) and the post
YKB_processProvision_log(t) ==
  /\ Replied
  /\ tasks[t].pc = "ykb_provision_log"
  /\ db' = [db EXCEPT ![tasks[t].tx] =
              save(@, tasks[t].doc, tasks[t].doc, <<addLog("provision", {"PASSWORD"})>>)]
  /\ sent' = [sent EXCEPT ![tasks[t].tx] = @ + 1]
  /\ tasks' = [tasks EXCEPT ![t].pc = "provision_wait", ![t].md = ""]
  /\ UNCHANGED <<binCache, issued, terminals, answer, calls>>

\* --------------------------------------------------- public serialization
getTransactionStatus(rec) ==
  [status |-> rec.status, card |-> [masked |-> rec.card.masked, bin |-> rec.card.bin],
   result |-> rec.result]

\* toObject() with card replaced by its masked view; everything else as stored
toJSON(rec) ==
  [pos |-> rec.pos, status |-> rec.status, result |-> rec.result,
   card |-> [masked |-> rec.card.masked, bin |-> rec.card.bin],
   secure |-> [formData |-> rec.formData], logs |-> rec.logs]

\* ------------------------------------------------------------ HTTP replies
\* POST /pay: the service's result as JSON, any error as 500
payRoute(task) == [status |-> IF task.ret = "ok" THEN 200 ELSE 500]

\* GET /payment/:id/form: the form HTML, any error as a 400 HTML page
formRoute(task) == [status |-> IF task.ret = "html" THEN 200 ELSE 400, html |-> TRUE]

\* POST /payment/:id/callback: the result page with the adapter's result, an
\* error thrown by processCallback as a 400 page with its message
\* variant: every outcome answered with the result page
callbackRoute_resultPage(task) ==
  [status |-> 200, success |-> task.ret = "success", message |-> ""]
callbackRoute(task) ==
  IF task.ret \in {"raised", "not_found"}
  THEN [status |-> 400, success |-> FALSE, message |-> task.message]
  ELSE [status |-> 200, success |-> task.ret = "success", message |-> task.message]

\* the reply has been delivered; the task is free again
reap(t) ==
  /\ tasks[t].pc = "done"
  /\ tasks' = [tasks EXCEPT ![t] = Idle]
  /\ UNCHANGED <<db, binCache, sent, issued, terminals, answer, calls>>

Next ==
  \/ \E t \in Tasks, posId \in PosIds, currency \in Currencies,
        number \in CardNumbers, up \in Upstream :
        createPayment(t, posId, currency, number, up)
  \/ \E t \in Tasks : initialize_saveSecure(t)
  \/ \E t \in Tasks, ok \in BOOLEAN : initialize_log(t, ok)
  \/ \E t \in Tasks : createPayment_updateOne(t)
  \/ \E t \in Tasks, tx \in {0} \cup TxIds : getPaymentForm(t, tx)
  \/ \E t \in Tasks : getFormHtml(t)
  \/ \E t \in Tasks, tx \in {0} \cup TxIds, md \in MdStatus : processCallback(t, tx, md)
  \/ \E t \in Tasks, ok \in BOOLEAN : processCallback_log(t, ok)
  \/ \E t \in Tasks : processCallback_invalid(t)
  \/ \E t \in Tasks, resp \in Responses : processProvision_response(t, resp)
  \/ \E t \in Tasks : processProvision_final(t)
  \/ \E t \in Tasks, parent \in TxIds, hasCvv \in BOOLEAN, resp \in Responses :
        postAuth(t, parent, hasCvv, resp)
  \/ \E t \in Tasks, parent \in TxIds, resp \in Responses : cancel(t, parent, resp)
  \/ \E t \in Tasks, parent \in TxIds, resp \in Responses : refund(t, parent, resp)
  \/ \E t \in Tasks, tx \in TxIds : history(t, tx)
  \/ \E t \in Tasks : reap(t)

Spec == Init /\ [][Next]_vars

\* ------------------------------------------- terminal routes and BIN query
payVars == <<db, tasks, binCache, sent, issued>>

\* pre('save') of a terminal: a non-empty credential without ':' is encrypted
preSaveCredentials(password) ==
  IF password.text # "" /\ ~password.colon THEN encrypt(password) ELSE password

getDecryptedCredentials(pos) == [password |-> decrypt(pos.credentials.password)]

\* POST /: one terminal per bank; the new terminal becomes the default of
\* each of its currencies that has none; fields outside the schema are not
\* stored
createPos(bankCode, priority, currencies, installment, supportedCardFamilies, credentials) ==
  /\ answer = NoAnswer
  /\ Len(terminals) < MaxPos
  /\ \A i \in 1..Len(terminals) : terminals[i].bankCode # bankCode
  /\ LET currenciesWithDefaults == UNION {terminals[i].defaultForCurrencies : i \in 1..Len(terminals)}
         autoDefaultCurrencies == currencies \ currenciesWithDefaults
     IN terminals' = Append(terminals,
          [bankCode |-> bankCode, priority |-> priority, currencies |-> currencies,
           defaultForCurrencies |-> autoDefaultCurrencies, status |-> TRUE,
           installment |-> installment,
           credentials |-> [password |-> preSaveCredentials(credentials.password)]])
  /\ UNCHANGED <<payVars, answer, calls>>

\* PUT /:id: a boolean status, a non-empty currency list and a non-empty
\* password replace the stored ones; nothing else is touched before save()
updatePos(i, body) ==
  /\ answer = NoAnswer
  /\ i \in 1..Len(terminals)
  /\ terminals' = [terminals EXCEPT
       ![i].status = IF body.status = "undefined" THEN @ ELSE body.status = "true",
       ![i].currencies = IF body.currencies # {} THEN body.currencies ELSE @,
       ![i].credentials.password =
          preSaveCredentials(IF body.credentials.password.text # ""
                             THEN body.credentials.password ELSE @)]
  /\ terminals' # terminals
  /\ UNCHANGED <<payVars, answer, calls>>

\* POST /:id/set-default/:currency, up to findById and the currency check;
\* the request takes the first free slot
setDefault_findById(c, i, currency) ==
  /\ answer = NoAnswer
  /\ calls[c] = NoCall /\ \A d \in 1..(c - 1) : calls[d] # NoCall
  /\ i \in 1..Len(terminals)
  /\ toLowerCase(currency) \in terminals[i].currencies
  /\ calls' = [calls EXCEPT ![c] =
                 [pc |-> "updateMany", pos |-> i, currency |-> toLowerCase(currency),
                  isDefault |-> toLowerCase(currency) \in terminals[i].defaultForCurrencies]]
  /\ UNCHANGED <<payVars, terminals, answer>>

\* updateMany: $pull of the currency from every other terminal of the company
setDefault_updateMany(c) ==
  /\ answer = NoAnswer
  /\ calls[c].pc = "updateMany"
  /\ terminals' = [i \in 1..Len(terminals) |->
                     IF i = calls[c].pos THEN terminals[i]
                     ELSE [terminals[i] EXCEPT !.defaultForCurrencies = @ \ {calls[c].currency}]]
  /\ calls' = [calls EXCEPT ![c].pc = "save"]
  /\ UNCHANGED <<payVars, answer>>

\* push and save() when the loaded terminal did not have the currency
setDefault_save(c) ==
  /\ answer = NoAnswer
  /\ calls[c].pc = "save"
  /\ terminals' = IF calls[c].isDefault
                  THEN terminals
                  ELSE [terminals EXCEPT ![calls[c].pos].defaultForCurrencies =
                                            @ \cup {calls[c].currency}]
  /\ calls' = [calls EXCEPT ![c] = NoCall]
  /\ UNCHANGED <<payVars, answer>>

\* DELETE /:id/unset-default/:currency
unsetDefault(i, currency) ==
  /\ answer = NoAnswer
  /\ i \in 1..Len(terminals)
  /\ terminals' = [terminals EXCEPT ![i].defaultForCurrencies = @ \ {toLowerCase(currency)}]
  /\ terminals' # terminals
  /\ UNCHANGED <<payVars, answer, calls>>

queryBin(data, amount, currency) ==
  /\ answer = NoAnswer
  /\ LET binInfo == binProfile(data)
         found == findSuitablePos(terminals, currency, binInfo)
     IN IF found = {}
        THEN answer' = [NoAnswer EXCEPT !.op = "queryBin"]
        ELSE \E pos \in found :
               answer' = [op |-> "queryBin", success |-> TRUE, pos |-> pos,
                          installments |-> generateInstallmentOptions(terminals[pos], amount,
                                                                      currency, binInfo)]
  /\ UNCHANGED <<payVars, terminals, calls>>

replyBin ==
  /\ answer # NoAnswer
  /\ answer' = NoAnswer
  /\ UNCHANGED <<payVars, terminals, calls>>

PosNext ==
  \/ \E bankCode \in BankCodes, body \in PosRequests, families \in FamilySets :
        createPos(bankCode, body.priority, body.currencies, body.installment, families,
                  body.credentials)
  \/ \E i \in 1..MaxPos, body \in StatusBodies \cup CredentialBodies : updatePos(i, body)
  \/ \E i \in 1..MaxPos, currency \in QueryCurrencies : unsetDefault(i, currency)
  \/ \E data \in BinData, amount \in Amounts, currency \in QueryCurrencies :
        queryBin(data, amount, currency)
  \/ replyBin

PosSpec == Init /\ [][PosNext]_vars

\* the terminal routes alone, with set-default requests running side by side
TerminalNext ==
  \/ \E bankCode \in BankCodes, body \in TerminalRequests :
        createPos(bankCode, body.priority, body.currencies, body.installment, {},
                  body.credentials)
  \/ \E i \in 1..MaxPos, body \in CurrencyBodies : updatePos(i, body)
  \/ \E c \in Tasks, i \in 1..MaxPos, currency \in Currencies :
        setDefault_findById(c, i, currency)
  \/ \E c \in Tasks : setDefault_updateMany(c)
  \/ \E c \in Tasks : setDefault_save(c)
  \/ \E i \in 1..MaxPos, currency \in Currencies : unsetDefault(i, currency)

TerminalSpec == Init /\ [][TerminalNext]_vars

\* the YKB adapter on its own: a payment on the YKB terminal as its
\* initialize leaves it, and the callbacks the bank posts for it
YKB_Transaction ==
  [NewTransaction(3, "4282209004348016") EXCEPT
     !.status = "processing",
     !.formData = [set |-> TRUE, pan |-> NullField, cv2 |-> NullField],
     !.logs = <<addLog("init", {"PASSWORD"}), addLog("init", {"PASSWORD"})>>]

YkbInit ==
  /\ db = <<YKB_Transaction>>
  /\ tasks = [t \in Tasks |-> Idle]
  /\ binCache = [b \in CachedBins |-> NotCached]
  /\ sent = [i \in TxIds |-> 0]
  /\ issued = {1}
  /\ terminals = << >>
  /\ answer = NoAnswer
  /\ calls = [c \in Tasks |-> NoCall]

YkbNext ==
  \/ \E t \in Tasks, tx \in TxIds, packet \in MerchantPackets :
        YKB_processCallback(t, tx, packet)
  \/ \E t \in Tasks : YKB_processCallback_log(t)
  \/ \E t \in Tasks : YKB_processCallback_failed(t)
  \/ \E t \in Tasks : YKB_processProvision_log(t)
  \/ \E t \in Tasks, resp \in Responses : processProvision_response(t, resp)
  \/ \E t \in Tasks : processProvision_final(t)
  \/ \E t \in Tasks : reap(t)

YkbSpec == YkbInit /\ [][YkbNext]_vars

\* ------------------------------------------------- getBinInfo, step by step
\* The lookup as the event loop runs it: the cache test and the upstream
\* request are one step, the handling of the answer (normalise, binCache.set,
\* return) a later one, so other lookups run in between.
BinNumbers == CardNumbers \cup {"5400617004770018"}
BinAnswers == Upstream \cup {"us"}
Lookup(number, pc, ret) ==
  [Idle EXCEPT !.pc = pc, !.op = "getBinInfo", !.md = number, !.ret = ret]

\* the length check, binCache.has / binCache.get, and axios.get sent
getBinInfo_has(t, number) ==
  /\ tasks[t].pc = "idle"
  /\ tasks' = [tasks EXCEPT ![t] =
       IF binDigits(binOf(number)) < 6 THEN Lookup(number, "done", "null")
       ELSE IF binCache[binOf(number)] # NotCached
            THEN Lookup(number, "done", binCache[binOf(number)].country)
       ELSE Lookup(number, "axios_get", "")]
  /\ UNCHANGED <<db, binCache, sent, issued, terminals, answer, calls>>

\* the answer: normalizeBinInfo and binCache.set, or the catch and the fallback
getBinInfo_set(t, up) ==
  /\ tasks[t].pc = "axios_get"
  /\ LET bin == binOf(tasks[t].md)
     IN IF up # "error"
        THEN /\ binCache' = [binCache EXCEPT ![bin] = normalizeBinInfo(up)]
             /\ tasks' = [tasks EXCEPT ![t] =
                  Lookup(tasks[t].md, "done", normalizeBinInfo(up).country)]
        ELSE /\ binCache' = binCache
             /\ tasks' = [tasks EXCEPT ![t] =
                  Lookup(tasks[t].md, "done", detectCardBrand(bin).country)]
  /\ UNCHANGED <<db, sent, issued, terminals, answer, calls>>

BinNext ==
  \/ \E t \in Tasks, number \in BinNumbers : getBinInfo_has(t, number)
  \/ \E t \in Tasks, up \in BinAnswers : getBinInfo_set(t, up)
  \/ \E t \in Tasks : reap(t)

BinSpec == Init /\ [][BinNext]_vars

\* ------------------------------------------- createPayment, Vakifbank adapter
\* createPayment on the Vakifbank terminal with the adapter constructed: the
\* one adapter whose initialize answers {success: false, code, error}.
VakifPos == 5
\* VerifyEnrollment answers: enrolled, not enrolled without an error code,
\* an error message with its code, no answer
Enrollment == {"Y", "N", "1001", "timeout"}
enrollmentCode(ver) == CASE ver = "N" -> "UNKNOWN"
                         [] ver = "timeout" -> "NETWORK_ERROR"
                         [] OTHER -> ver

Vakif_createPayment(t, currency, number, up) ==
  /\ FreeTask(t)
  /\ VirtualPos[VakifPos].status
  /\ UNCHANGED <<sent, issued, terminals, answer, calls>>
  /\ LET r == getBinInfo(binOf(number), binCache, up)
         req == [Idle EXCEPT !.op = "createPayment"]
     IN /\ binCache' = r.cache
        /\ IF currency # "try" /\ r.info.valid /\ isDomesticCard(r.info)
           THEN /\ tasks' = [tasks EXCEPT ![t] =
                              [req EXCEPT !.pc = "done", !.ret = "domestic_card_non_try"]]
                /\ UNCHANGED db
           ELSE LET rec == NewTransaction(VakifPos, number)
                IN /\ Cardinality({i \in 1..Len(db) : db[i].kind = "payment"}) < MaxTx
                   /\ HasRoom(2)
                   /\ db' = Append(db, rec)
                   /\ tasks' = [tasks EXCEPT ![t] =
                                 [req EXCEPT !.pc = "vakif_initialize", !.tx = Len(db) + 1,
                                             !.doc = Load(rec)]]

\* enrollmentData: Pan and MerchantPassword in clear
enrollmentData(rec) == {getDecryptedCard(rec).number.text, "PASSWORD"}

\* log('init', enrollmentData, {status: 'verifying'}) and the POST
Vakif_initialize_log(t) ==
  /\ Replied
  /\ tasks[t].pc = "vakif_initialize"
  /\ LET tx == tasks[t].tx
         entry == addLog("init", enrollmentData(db[tx]))
     IN db' = [db EXCEPT ![tx] = save(@, tasks[t].doc, tasks[t].doc, <<entry>>)]
  /\ tasks' = [tasks EXCEPT ![t].pc = "vakif_post"]
  /\ UNCHANGED <<binCache, sent, issued, terminals, answer, calls>>

\* the answer is logged ('init', or 'error' from the catch); unless the card
\* is enrolled, initialize returns {success: false, code, error}
Vakif_initialize_response(t, ver) ==
  /\ Replied
  /\ tasks[t].pc = "vakif_post"
  /\ LET tx == tasks[t].tx
         entry == addLog(IF ver = "timeout" THEN "error" ELSE "init",
                         enrollmentData(db[tx]))
     IN db' = [db EXCEPT ![tx] = save(@, tasks[t].doc, tasks[t].doc, <<entry>>)]
  /\ tasks' = [tasks EXCEPT ![t].pc = IF ver = "Y" THEN "vakif_saveSecure" ELSE "init_failed",
                             ![t].message = IF ver = "Y" THEN "" ELSE enrollmentCode(ver)]
  /\ UNCHANGED <<binCache, sent, issued, terminals, answer, calls>>

\* secure.formData = {PaReq, TermUrl, MD, ACSUrl, orderId, amount}; saveSecure
Vakif_saveSecure(t) ==
  /\ Replied
  /\ tasks[t].pc = "vakif_saveSecure"
  /\ LET form == [set |-> TRUE, pan |-> NullField, cv2 |-> NullField]
         cur == [tasks[t].doc EXCEPT !.formData = form]
     IN /\ db' = [db EXCEPT ![tasks[t].tx] = saveSecure(@, tasks[t].doc, cur)]
        /\ tasks' = [tasks EXCEPT ![t].pc = "updateOne", ![t].doc = cur]
  /\ UNCHANGED <<binCache, sent, issued, terminals, answer, calls>>

\* what createPayment stores when initialize did not succeed
initFailure(code) ==
  [Failure(IF code = "" THEN "INIT_ERROR" ELSE code) EXCEPT !.message = errorMessage(code)]

\* if (!result.success): status failed, result {code, message}, save, throw
createPayment_failed(t) ==
  /\ Replied
  /\ tasks[t].pc = "init_failed"
  /\ LET d == tasks[t].doc
         cur == [d EXCEPT !.status = "failed", !.result = initFailure(tasks[t].message)]
     IN /\ db' = [db EXCEPT ![tasks[t].tx] = save(@, d, cur, << >>)]
        /\ tasks' = [tasks EXCEPT ![t].pc = "init_throw", ![t].doc = cur]
  /\ UNCHANGED <<binCache, sent, issued, terminals, answer, calls>>

\* the throw lands in the catch of the same try: result is assigned again
\* with code 'ERROR' and the thrown message, saved, and the error rethrown
createPayment_catch(t) ==
  /\ Replied
  /\ tasks[t].pc = "init_throw"
  /\ LET d == tasks[t].doc
         cur == [d EXCEPT !.status = "failed",
                          !.result = [Failure("ERROR") EXCEPT !.message = d.result.message]]
     IN /\ db' = [db EXCEPT ![tasks[t].tx] = save(@, d, cur, << >>)]
        /\ tasks' = [tasks EXCEPT ![t] = [Done(t, "raised") EXCEPT !.message = tasks[t].message]]
  /\ UNCHANGED <<binCache, sent, issued, terminals, answer, calls>>

VakifNext ==
  \/ \E t \in Tasks, currency \in Currencies, number \in CardNumbers, up \in Upstream :
        Vakif_createPayment(t, currency, number, up)
  \/ \E t \in Tasks : Vakif_initialize_log(t)
  \/ \E t \in Tasks, ver \in Enrollment : Vakif_initialize_response(t, ver)
  \/ \E t \in Tasks : Vakif_saveSecure(t)
  \/ \E t \in Tasks : createPayment_updateOne(t)
  \/ \E t \in Tasks : createPayment_failed(t)
  \/ \E t \in Tasks : createPayment_catch(t)
  \/ \E t \in Tasks, tx \in TxIds \cup {0} : getPaymentForm(t, tx)
  \/ \E t \in Tasks : getFormHtml(t)
  \/ \E t \in Tasks : reap(t)

VakifSpec == Init /\ [][VakifNext]_vars

\* ------------------------------------------------ Garanti 3-D form hash
\* Strings are sequences of tokens (terminal ids digit by digit), + is \o.
\* Digests are kept symbolic: the algorithm and the exact input.
\* digest('hex').toUpperCase()
hexUpper(algorithm, data) == <<algorithm, "(">> \o data \o <<")">>
RECURSIVE padStart(_, _)
padStart(str, n) == IF Len(str) >= n THEN str ELSE padStart(<<"0">> \o str, n)
getCurrencyCode(currency) == IF currency = "eur" THEN <<"978">> ELSE <<"949">>
getCallbackUrl(orderId) == <<"/payment/">> \o orderId \o <<"/callback">>

TerminalIds == {<<"3", "0", "6", "9", "1", "2", "9", "8">>, <<"1", "2", "3">>}
Passwords == {<<"123qweASD/">>, <<"pw">>}
SecretKeys == {<<"12345678">>}
OrderIds == {<<"65f0a1">>, <<"65f0a2">>, <<"65f0a3">>}
CentAmounts == {<<"15000">>, <<"100">>, <<"999">>}
Installments == {1, 3}

\* the decrypted credentials and the form before their fields are assigned
NoCredentials == [terminalId |-> << >>, password |-> << >>, secretKey |-> << >>]
NoFormData == [orderid |-> << >>, terminalid |-> << >>, txnamount |-> << >>,
               txncurrencycode |-> << >>, txninstallmentcount |-> << >>,
               successurl |-> << >>, errorurl |-> << >>, secure3dhash |-> << >>]
NoInitialize == [op |-> "garanti_initialize", credentials |-> NoCredentials,
                 formData |-> NoFormData]

\* the formData GarantiProvider.initialize builds (the fields the hash is about)
Garanti_formData(credentials, orderId, amount, currency, installment) ==
  LET callbackUrl == getCallbackUrl(orderId)
      hashData == orderId \o credentials.terminalId \o << >> \o amount \o callbackUrl
                    \o callbackUrl \o <<"sales">> \o credentials.secretKey
      hashedPassword == hexUpper("sha1", credentials.password
                                           \o padStart(credentials.terminalId, 9))
      securityHash == hexUpper("sha1", hashData \o hashedPassword)
  IN [NoFormData EXCEPT
        !.orderid = orderId,
        !.terminalid = credentials.terminalId,
        !.txnamount = amount,
        !.txncurrencycode = getCurrencyCode(currency),
        !.txninstallmentcount = IF installment > 1 THEN <<"3">> ELSE << >>,
        !.successurl = callbackUrl,
        !.errorurl = callbackUrl,
        !.secure3dhash = securityHash]

\* initialize run for one transaction and one terminal; answer keeps the form
\* built and the credentials it was built with
Garanti_initialize(credentials, orderId, amount, currency, installment) ==
  /\ answer' = [NoInitialize EXCEPT
                  !.credentials = credentials,
                  !.formData = Garanti_formData(credentials, orderId, amount,
                                                currency, installment)]
  /\ UNCHANGED <<db, tasks, binCache, sent, issued, terminals, calls>>

HashNext ==
  \E terminalId \in TerminalIds, password \in Passwords, secretKey \in SecretKeys,
     orderId \in OrderIds, amount \in CentAmounts, currency \in Currencies,
     installment \in Installments :
    Garanti_initialize([NoCredentials EXCEPT !.terminalId = terminalId,
                                             !.password = password,
                                             !.secretKey = secretKey],
                       orderId, amount, currency, installment)

HashSpec == Init /\ [][HashNext]_vars

\* ================================================================ properties
Stored == 1..Len(db)
Stepped(t) == tasks'[t] # tasks[t]
InFlight(i) == \E t \in Tasks : tasks[t].tx = i /\ tasks[t].pc \notin {"idle", "done"}
IsPrefix(s, r) == Len(s) <= Len(r) /\ \A k \in 1..Len(s) : s[k] = r[k]
LogCount(rec, type) == Cardinality({k \in 1..Len(rec.logs) : rec.logs[k].type = type})
StateGraph == {<<"pending", "processing">>, <<"pending", "failed">>,
               <<"processing", "success">>, <<"processing", "failed">>}
Final == {"success", "failed"}

\* C1: every status change of a stored transaction is an edge of
\* pending -> processing -> {success, failed} or pending -> failed, so that
\* no transaction leaves success or failed.
C1_StatusFollowsGraph ==
  [][\A i \in Stored : db'[i].status = db[i].status
                         \/ <<db[i].status, db'[i].status>> \in StateGraph]_vars

\* C2: a processCallback that found the transaction already success or failed
\* changes neither its status nor its result.
C2_FinalizedCallbackKeepsOutcome ==
  [][\A t \in Tasks :
       (Stepped(t) /\ tasks[t].op = "processCallback" /\ tasks[t].tx # 0
          /\ tasks[t].doc.status \in Final)
       => /\ db'[tasks[t].tx].status = db[tasks[t].tx].status
          /\ db'[tasks[t].tx].result = db[tasks[t].tx].result]_vars

\* C3: of the processCallback invocations that read the same transaction in
\* processing, at most one gets as far as the provision request, and none
\* turns a stored success into failed.
Provisioning(i) ==
  {t \in Tasks : /\ tasks[t].op = "processCallback" /\ tasks[t].tx = i
                  /\ tasks[t].doc.status = "processing"
                  /\ tasks[t].pc \in {"provision_wait", "provision_final"}}
C3_OneProvisionPerTransaction ==
  [][\A i \in Stored :
       /\ Cardinality(Provisioning(i)) <= 1
       /\ ~(db[i].status = "success" /\ db'[i].status = "failed")]_vars

\* C4: a stored transaction whose status is success holds no CVV.
C4_SuccessHasNoCvv ==
  \A i \in Stored : db[i].status = "success" => db[i].card.cvv = NullField
C4_Witness ==
  \E i \in Stored : /\ db[i].status = "success" /\ db[i].card.cvv = NullField
                     /\ LogCount(db[i], "provision") > 0

\* C5: a processCallback that found the transaction in success sends no
\* provision request and appends no provision log.
C5_SuccessCallbackSendsNothing ==
  [][\A t \in Tasks :
       (Stepped(t) /\ tasks[t].op = "processCallback" /\ tasks[t].tx # 0
          /\ tasks[t].doc.status = "success")
       => /\ sent' = sent
          /\ LogCount(db'[tasks[t].tx], "provision") = LogCount(db[tasks[t].tx], "provision")]_vars

\* C6: when an adapter operation started by createPayment or processCallback
\* raises, the transaction is stored as failed with an unsuccessful result by
\* the time the error reaches the caller.
C6_RaisedMeansFailed ==
  [][\A t \in Tasks :
       (tasks[t].pc \notin {"idle", "done"} /\ tasks'[t].pc = "done"
          /\ tasks'[t].ret = "raised")
       => /\ db'[tasks[t].tx].status = "failed"
          /\ db'[tasks[t].tx].result.set
          /\ ~db'[tasks[t].tx].result.success]_vars

\* C7: once an acquirer request of a transaction has timed out and no request
\* is working on it any more, it is stored as failed with code NETWORK_ERROR.
C7_TimeoutEndsNetworkError ==
  \A i \in Stored :
    (LogCount(db[i], "error") > 0 /\ ~InFlight(i))
    => db[i].status = "failed" /\ db[i].result.code = "NETWORK_ERROR"

\* C8: the stored log of a transaction only grows at its end: every step
\* leaves the entries already stored in place and in order.
C8_LogsAppendOnly ==
  [][\A i \in Stored : IsPrefix(db[i].logs, db'[i].logs)]_vars
\* a form log appended behind a callback log while that callback is still
\* waiting for the acquirer
C8_Witness ==
  \E i \in Stored, t \in Tasks :
    /\ tasks[t].tx = i /\ tasks[t].pc = "provision_wait"
    /\ \E j, k \in 1..Len(db[i].logs) :
          j < k /\ db[i].logs[j].type = "3d_callback" /\ db[i].logs[k].type = "3d_form"

\* C9: neither the status projection nor the JSON form of a stored transaction
\* carries the card holder, number, expiry or CVV, the 3-D form data and the
\* logs included.
CardTexts == CardNumbers \cup {Card.holder, Card.expiry, Card.cvv}
RECURSIVE LogTexts(_)
LogTexts(logs) == IF logs = << >> THEN {} ELSE Head(logs).request \cup LogTexts(Tail(logs))
TextsOfJSON(o) ==
  {o.card[f].text : f \in DOMAIN o.card \ {"bin"}}
    \cup {o.secure.formData.pan.text, o.secure.formData.cv2.text} \cup LogTexts(o.logs)
TextsOfStatus(o) == {o.card[f].text : f \in DOMAIN o.card \ {"bin"}}
C9_SerializedHidesCard ==
  \A i \in Stored :
    /\ TextsOfJSON(toJSON(db[i])) \cap CardTexts = {}
    /\ TextsOfStatus(getTransactionStatus(db[i])) \cap CardTexts = {}

\* C10: createPayment with a currency other than try for a card whose BIN
\* resolves to country tr ends in a rejection, stores no record and starts no
\* adapter call: a createPayment step either is such a rejection or is not
\* the step of any such request.
C10_DomesticNonTryRejected ==
  [][\A t \in Tasks :
       (tasks[t].pc = "idle" /\ tasks'[t].op = "createPayment")
       => \/ /\ db' = db
             /\ tasks'[t].pc = "done" /\ tasks'[t].tx = 0
             /\ tasks'[t].ret \notin {"ok", "success"}
          \/ \A posId \in PosIds, currency \in Currencies \ {"try"},
                number \in CardNumbers, up \in Upstream :
               ~(/\ getBinInfo(binOf(number), binCache, up).info.valid
                 /\ getBinInfo(binOf(number), binCache, up).info.country = "tr"
                 /\ createPayment(t, posId, currency, number, up))]_vars
C10_Witness ==
  \E t \in Tasks : /\ tasks[t].op = "createPayment" /\ tasks[t].pc = "done"
                    /\ tasks[t].ret = "domestic_card_non_try" /\ db = << >>

\* C11: the BIN query returns a terminal matching the lowest-numbered rule
\* that any active terminal supporting the currency matches, the rules being
\* (1) same bank code as the BIN, (2) card family supported, (3) default for
\* the currency, (4) any; it returns none exactly when no active terminal
\* supports the currency.
PolicyMatches(store, currency, data) ==
  LET all == allPos(store, toLowerCase(currency))
      rule1 == {i \in all : data.bankCode # "" /\ store[i].bankCode = toLowerCase(data.bankCode)}
      rule2 == {i \in all : /\ data.family # ""
                            /\ "supportedCardFamilies" \in DOMAIN store[i]
                            /\ \E f \in store[i].supportedCardFamilies :
                                  toLowerCase(f) = toLowerCase(data.family)}
      rule3 == {i \in all : toLowerCase(currency) \in store[i].defaultForCurrencies}
  IN IF rule1 # {} THEN rule1 ELSE IF rule2 # {} THEN rule2
     ELSE IF rule3 # {} THEN rule3 ELSE all
C11_LowestRuleSelects ==
  [][\A data \in BinData, amount \in Amounts, currency \in QueryCurrencies :
       queryBin(data, amount, currency)
       => IF allPos(terminals, toLowerCase(currency)) = {}
          THEN ~answer'.success
          ELSE answer'.success /\ answer'.pos \in PolicyMatches(terminals, currency, data)]_vars

\* C12: among the terminals matching the rule applied, the BIN query returns
\* the one of highest priority and, of those, the earliest inserted.
Earliest(S) == CHOOSE i \in S : \A j \in S : i <= j
C12_TieBreakByInsertion ==
  [][\A data \in BinData, amount \in Amounts, currency \in QueryCurrencies :
       (queryBin(data, amount, currency) /\ answer'.success)
       => answer'.pos =
            Earliest(first(terminals, ruleMatches(terminals, currency, binProfile(data))))]_vars

\* C15: the installment counts of a BIN query are {1} when the currency is not
\* try, the card is debit or prepaid, installments are disabled or the amount
\* is below the terminal's minAmount, and 1..maxCount otherwise; every option
\* carries the full amount.
C15_InstallmentCounts ==
  [][\A data \in BinData, amount \in Amounts, currency \in QueryCurrencies :
       (queryBin(data, amount, currency) /\ answer'.success)
       => LET pos == terminals[answer'.pos]
              single == \/ currency # "try"
                        \/ normalizeCardType(data.type) \in {"debit", "prepaid"}
                        \/ ~pos.installment.enabled
                        \/ amount < pos.installment.minAmount
          IN /\ {o.count : o \in answer'.installments} =
                  IF single THEN {1} ELSE 1..pos.installment.maxCount
             /\ \A o \in answer'.installments : o.amount = amount]_vars


\* C13: when createPayment answers success, the stored transaction is in
\* processing and holds the 3-D form data, so that the form can be served.
C13_SuccessMeansFormReady ==
  \A t \in Tasks :
    (tasks[t].op = "createPayment" /\ tasks[t].pc = "done" /\ tasks[t].ret = "ok")
    => /\ db[tasks[t].tx].status = "processing"
       /\ db[tasks[t].tx].formData.set

\* C14: getPaymentForm on a transaction stored as pending, success or failed
\* ends in a state error, answered 400 with an HTML page, and changes nothing
\* stored; form HTML comes only from a request that found processing.
C14_FormOnlyInProcessing ==
  [][\A t \in Tasks :
       /\ (/\ tasks[t].pc = "idle" /\ tasks'[t].op = "getPaymentForm"
           /\ tasks'[t].tx # 0 /\ db[tasks'[t].tx].status # "processing")
          => /\ tasks'[t].pc = "done" /\ tasks'[t].ret = "state_error"
             /\ formRoute(tasks'[t]) = [status |-> 400, html |-> TRUE]
             /\ db' = db
       /\ (tasks[t].pc = "getFormHtml" /\ tasks'[t].ret = "html")
          => tasks[t].doc.status = "processing"]_vars
C14_Witness ==
  \E t \in Tasks : /\ tasks[t].op = "getPaymentForm" /\ tasks[t].pc = "done"
                    /\ tasks[t].ret = "state_error" /\ tasks[t].tx # 0
                    /\ db[tasks[t].tx].status = "success"

\* C16: a Garanti callback whose mdstatus is not "1" sends no provision
\* request and ends with the transaction stored as failed.
C16_GarantiOnlyMdStatus1 ==
  [][\A t \in Tasks :
       (/\ Stepped(t) /\ tasks[t].pc \in {"callback_log", "callback_invalid"}
        /\ providerOf(tasks[t].tx) = "garanti" /\ tasks[t].md # "1")
       => /\ sent' = sent
          /\ tasks'[t].pc \in {"callback_invalid", "done"}
          /\ (tasks'[t].pc = "done" /\ tasks'[t].ret # "raised")
             => db'[tasks[t].tx].status = "failed"]_vars

\* C17: a Payten callback sends a provision request only for an mdStatus in
\* {1,2,3,4}; for any other the transaction is stored as failed with an
\* unsuccessful result and nothing is sent to the acquirer.
PaytenAccepted == {"1", "2", "3", "4"}
C17_ProvisionOnlyOnAccepted ==
  [][\A t \in Tasks :
       (/\ Stepped(t) /\ tasks[t].pc \in {"callback_log", "callback_invalid"}
        /\ providerOf(tasks[t].tx) = "payten")
       => /\ sent' # sent => tasks[t].md \in PaytenAccepted
          /\ tasks[t].md \notin PaytenAccepted
             => /\ sent' = sent
                /\ tasks'[t].pc \in {"callback_invalid", "done"}
                /\ (tasks'[t].pc = "done" /\ tasks'[t].ret # "raised")
                   => /\ db'[tasks[t].tx].status = "failed"
                      /\ db'[tasks[t].tx].result.set
                      /\ ~db'[tasks[t].tx].result.success]_vars

\* C18: a provision denied with code c and message m leaves the transaction
\* stored as failed with result {success: false, code: c, message: m}, and
\* the callback is answered 200 with success false and message m.
C18_DenialStoredAndReported ==
  [][\A t \in Tasks :
       (Stepped(t) /\ tasks[t].pc = "provision_final" /\ tasks[t].out = "denied")
       => /\ db'[tasks[t].tx].status = "failed"
          /\ db'[tasks[t].tx].result =
               [set |-> TRUE, success |-> FALSE, code |-> "12", authCode |-> "",
                message |-> "Red-Kart hatali"]
          /\ callbackRoute(tasks'[t]) =
               [status |-> 200, success |-> FALSE, message |-> "Red-Kart hatali"]]_vars

\* C19: a callback for an unknown transaction id is answered with an error
\* that carries an explanation, sends nothing to the acquirer and leaves the
\* stored transactions as they are.
C19_UnknownCallbackExplained ==
  [][\A t \in Tasks :
       (tasks[t].pc = "idle" /\ tasks'[t].op = "processCallback" /\ tasks'[t].tx = 0)
       => /\ tasks'[t].pc = "done"
          /\ callbackRoute(tasks'[t]).status = 400
          /\ ~callbackRoute(tasks'[t]).success
          /\ callbackRoute(tasks'[t]).message # ""
          /\ db' = db /\ sent' = sent]_vars
C19_Witness ==
  \E t \in Tasks : /\ tasks[t].op = "processCallback" /\ tasks[t].pc = "done"
                    /\ tasks[t].tx = 0 /\ tasks[t].ret = "not_found"
                    /\ callbackRoute(tasks[t]).status = 400

\* C20: POST /pay answers 400 for a domestic card on a non-try currency, 404
\* for a missing or inactive terminal and 500 for the other errors.
C20_PayErrorStatus ==
  \A t \in Tasks :
    (tasks[t].op = "createPayment" /\ tasks[t].pc = "done" /\ tasks[t].ret # "ok")
    => payRoute(tasks[t]).status =
         CASE tasks[t].ret = "domestic_card_non_try" -> 400
           [] tasks[t].ret = "pos_not_active" -> 404
           [] OTHER -> 500


\* C21: createPayment on an explicitly given active terminal whose currencies
\* do not include the requested currency is rejected and stores no record: a
\* createPayment step either is a rejection or is not the step of any such
\* request.
C21_CurrencyOutsideTerminalRejected ==
  [][\A t \in Tasks :
       (tasks[t].pc = "idle" /\ tasks'[t].op = "createPayment")
       => \/ /\ db' = db
             /\ tasks'[t].pc = "done" /\ tasks'[t].tx = 0
             /\ tasks'[t].ret \notin {"ok", "success"}
          \/ \A posId \in DOMAIN VirtualPos, currency \in Currencies,
                number \in CardNumbers, up \in Upstream :
               ~(/\ VirtualPos[posId].status
                 /\ currency \notin VirtualPos[posId].currencies
                 /\ createPayment(t, posId, currency, number, up))]_vars

\* C29: a payment on a terminal whose provider tag has no registered
\* constructor is refused by createPayment before any record is stored, and
\* getProvider returns no adapter for any such tag.
C29_UnregisteredProviderRefused ==
  [][\A t \in Tasks :
       (tasks[t].pc = "idle" /\ tasks'[t].op = "createPayment")
       => /\ \A provider \in DOMAIN PROVIDERS :
               ~PROVIDERS[provider] => getProvider(provider).adapter = ""
          /\ IF tasks'[t].ret = "provider_unsupported"
             THEN db' = db /\ tasks'[t].pc = "done" /\ tasks'[t].tx = 0
             ELSE \A posId \in {i \in DOMAIN VirtualPos :
                                  /\ VirtualPos[i].status
                                  /\ ~PROVIDERS[VirtualPos[i].provider]},
                     currency \in Currencies, number \in CardNumbers, up \in Upstream :
                    ~createPayment(t, posId, currency, number, up)]_vars
C29_Witness ==
  \E t \in Tasks : /\ tasks[t].pc = "done" /\ tasks[t].op = "createPayment"
                   /\ tasks[t].ret = "provider_unsupported" /\ db = << >>

\* C22: for every currency at most one terminal of the company has it in
\* defaultForCurrencies, whatever the interleaving of the terminal routes.
C22_OneDefaultPerCurrency ==
  \A currency \in Currencies :
    Cardinality({i \in 1..Len(terminals) :
                   currency \in terminals[i].defaultForCurrencies}) <= 1

\* C23: every terminal's defaultForCurrencies is a subset of its currencies.
C23_DefaultsWithinCurrencies ==
  \A i \in 1..Len(terminals) :
    terminals[i].defaultForCurrencies \subseteq terminals[i].currencies

\* C24: a credential submitted on creation reads back unchanged through
\* getDecryptedCredentials, also when it contains ':', and saving the stored
\* terminal again leaves the stored string as it is.
C24_CredentialRoundTrip ==
  [][\A bankCode \in BankCodes, body \in PosRequests :
       createPos(bankCode, body.priority, body.currencies, body.installment, {},
                 body.credentials)
       => LET pos == terminals'[Len(terminals')]
          IN /\ getDecryptedCredentials(pos).password = body.credentials.password
             /\ preSaveCredentials(pos.credentials.password) = pos.credentials.password]_vars

\* C25: every non-empty stored terminal password and every non-empty stored
\* card holder, number, expiry and cvv is ciphertext.
C25_StoredSecretsAreCiphertext ==
  /\ \A i \in 1..Len(terminals) :
       terminals[i].credentials.password.text # "" => terminals[i].credentials.password.enc
  /\ \A i \in 1..Len(db), k \in {"holder", "number", "expiry", "cvv"} :
       db[i].card[k] # NullField => db[i].card[k].enc

\* the log types the specification lists
SpecLogTypes == {"init", "3d_form", "3d_callback", "provision", "refund", "cancel",
                 "status", "pre_auth", "post_auth", "error"}

\* C26: an approved cancel leaves its child record in success and the
\* original in cancelled; an approved refund leaves its child in success and
\* the original in success.
C26_ApprovedReversalCompletes ==
  [][\A t \in Tasks, parent \in TxIds :
       /\ cancel(t, parent, "approved")
          => /\ db'[Len(db')].status = "success"
             /\ db'[parent].status = "cancelled"
       /\ refund(t, parent, "approved")
          => /\ db'[Len(db')].status = "success"
             /\ db'[parent].status = "success"]_vars

\* C28: a provision request is sent only after a 'provision' log entry has
\* been appended for it, and once the response has been logged the
\* transaction holds at least two such entries.
C28_ExchangeLoggedBeforeAndAfter ==
  /\ \A i \in Stored : LogCount(db[i], "provision") >= sent[i]
  /\ \A t \in Tasks : tasks[t].pc = "provision_final"
                      => LogCount(db[tasks[t].tx], "provision") >= 2

\* C30: every log entry an adapter operation appends to a transaction,
\* saved or still on the loaded document, has a type the specification lists.
C30_LogTypesClosed ==
  /\ \A i \in Stored : \A k \in 1..Len(db[i].logs) : db[i].logs[k].type \in SpecLogTypes
  /\ \A t \in Tasks : \A k \in 1..Len(tasks[t].pushed) :
       tasks[t].pushed[k].type \in SpecLogTypes

C31_CachedBinImmutable ==
  [][\A b \in CachedBins :
       binCache[b] # NotCached =>
         /\ binCache'[b] = binCache[b]
         /\ \A t \in Tasks :
              (tasks[t].pc = "idle" /\ tasks'[t].pc # "idle" /\ binOf(tasks'[t].md) = b)
                => (tasks'[t].pc = "done" /\ tasks'[t].ret = binCache[b].country)]_vars

C33_CallbackLeavesProcessing ==
  [][\A t \in Tasks :
       (/\ tasks[t].op = "processCallback"
        /\ tasks[t].pc \notin {"idle", "done"}
        /\ tasks[t].doc.status = "processing"
        /\ tasks'[t].pc = "done")
       => db'[tasks[t].tx].status \in {"success", "failed"}]_vars

\* C34: decryptMerchantPacket tries the variants in the order full, minus 8
\* hex, minus 16 hex and returns what the first variant yields whose data is
\* block-aligned and whose plaintext has a semicolon and at least 12 fields;
\* later variants are not consulted, and it returns null only when all three
\* are rejected. The callback acts on that result.
C34_Accepted(packet, mode) ==
  /\ dataLength(packet, mode) % 8 = 0
  /\ plaintext(packet, mode).parts >= 2
  /\ plaintext(packet, mode).parts >= 12
C34_First(packet) ==
  IF C34_Accepted(packet, "full") THEN "full"
  ELSE IF C34_Accepted(packet, "minus8") THEN "minus8"
  ELSE IF C34_Accepted(packet, "minus16") THEN "minus16"
  ELSE "none"
C34_FirstAcceptedVariantWins ==
  \A t \in Tasks :
    (tasks[t].pc \in {"ykb_failed", "ykb_provision_log"} /\ tasks[t].md # "")
    => LET packet == tasks[t].md
           chosen == C34_First(packet)
       IN IF chosen = "none"
          THEN ~decryptMerchantPacket(packet).ok /\ tasks[t].out = "DECRYPT_ERROR"
          ELSE /\ decryptMerchantPacket(packet) =
                    [ok |-> TRUE, tds_md_status |-> plaintext(packet, chosen).tds_md_status]
               /\ tasks[t].out =
                    IF plaintext(packet, chosen).tds_md_status \in YKB_validStatuses
                    THEN "" ELSE plaintext(packet, chosen).tds_md_status
\* a callback whose packet decodes under two variants has acted on the first
C34_Witness ==
  \E t \in Tasks :
    /\ tasks[t].pc = "ykb_failed"
    /\ C34_Accepted(tasks[t].md, "full") /\ C34_Accepted(tasks[t].md, "minus16")
    /\ tasks[t].out = "10"

\* C35: the secure3dhash Garanti initialize puts in formData is the upper-case
\* SHA-512 of terminalId, orderId, amount, currency, successUrl, errorUrl,
\* "sales", installment, storeKey and hp, concatenated in that order, with
\* hp = upper(sha1(password + "0" + terminalId)).
C35_FormHashIsSha512Chain ==
  answer.op = "garanti_initialize" =>
    LET f == answer.formData
        c == answer.credentials
        hp == hexUpper("sha1", c.password \o <<"0">> \o c.terminalId)
    IN f.secure3dhash =
         hexUpper("sha512", f.terminalid \o f.orderid \o f.txnamount \o f.txncurrencycode
                              \o f.successurl \o f.errorurl \o <<"sales">>
                              \o f.txninstallmentcount \o c.secretKey \o hp)

C37_SuccessHoldsNoClearCard ==
  \A i \in Stored :
    db[i].status = "success"
    => ({db[i].formData.pan.text, db[i].formData.cv2.text} \cup LogTexts(db[i].logs))
         \cap (CardNumbers \cup {Card.cvv}) = {}

\* C38: no adapter operation writes a decrypted terminal credential into a
\* persisted record: no step of a payment operation changes a terminal, and
\* no stored log entry holds the clear password.
C38_NoClearCredentialPersisted ==
  [][/\ terminals' = terminals
     /\ \A i \in 1..Len(db') : "PASSWORD" \notin LogTexts(db'[i].logs)]_vars

\* C39: the on-us rule can be reached through queryBin: whenever an active
\* terminal of a bank the BIN lookup can name is outranked in priority for a
\* currency and is not that currency's default, some answer of the BIN lookup
\* makes queryBin select it, because its bankCode is the card's.
C39_OnUsReachable ==
  \A currency \in QueryCurrencies :
    LET all == allPos(terminals, toLowerCase(currency))
    IN \A i \in all :
         (/\ terminals[i].bankCode \in {d.bankCode : d \in BinData} \ {""}
          /\ toLowerCase(currency) \notin terminals[i].defaultForCurrencies
          /\ \E j \in all : terminals[j].priority > terminals[i].priority)
         => \E data \in BinData :
              /\ toLowerCase(data.bankCode) = terminals[i].bankCode
              /\ findSuitablePos(terminals, currency, binProfile(data)) = {i}

====
